---------------------------- MODULE Spec2Model ----------------------------
(***************************************************************************)
(* A model of the rolling_hash crate: the Adler-style rolling checksum     *)
(* (rollsum.rs), the block signature (signature.rs) and the window-sliding *)
(* diff scanner check_diffs (lib.rs).                                      *)
(*                                                                         *)
(* A u32 is held as two 16-bit halves [hi, lo] so that wrapping 32-bit     *)
(* arithmetic is computed exactly; a u16 is an integer in 0 .. 65535.      *)
(* The strong hash (Blake2b) is taken as collision-free: it is modelled as *)
(* an injective tag over the hashed bytes.                                 *)
(***************************************************************************)
EXTENDS Integers, Sequences, FiniteSets, TLC

\* ------------------------------------------------------------------ bounds
\* Largest block_size tried by check_diffs.
MaxBlockSize == 4
\* Longest old sequence.
MaxOldLen == 4
\* Longest new sequence.
MaxNewLen == 5
\* Longest initial window of the rollsum harness.
MaxWindow == 3
\* Most bytes left to feed to the rollsum harness after its initial window.
MaxRest == 2

\* Byte values of the old and new sequences of check_diffs.
Bytes == {0, 1}
\* Byte values fed to the rollsum harness (u8 extremes included).
RollBytes == {1, 255}

\* ------------------------------------------------------------ fixed widths
TwoTo16 == 65536

\* `x as u16` of an integer (two's complement truncation).
AsU16(x) == ((x % TwoTo16) + TwoTo16) % TwoTo16

\* A u16 operation overflows (panics with overflow checks, wraps without).
OverflowsU16(x) == x < 0 \/ x >= TwoTo16

\* A small natural as a u32.
U32(n) == [hi |-> (n \div TwoTo16) % TwoTo16, lo |-> n % TwoTo16]

\* Wrapping<u32> addition.
AddU32(a, b) ==
    LET lo == a.lo + b.lo
    IN  [hi |-> (a.hi + b.hi + (lo \div TwoTo16)) % TwoTo16, lo |-> lo % TwoTo16]

\* Wrapping<u32> subtraction.
SubU32(a, b) ==
    LET lo == a.lo - b.lo
        borrow == IF lo < 0 THEN 1 ELSE 0
    IN  [hi |-> (a.hi - b.hi - borrow + 2 * TwoTo16) % TwoTo16,
         lo |-> (lo + TwoTo16) % TwoTo16]

\* Wrapping<u32> multiplication of a u32 by a byte widened to u32.
MulU32Byte(a, byte) ==
    LET p == a.lo * byte
    IN  [hi |-> (a.hi * byte + (p \div TwoTo16)) % TwoTo16, lo |-> p % TwoTo16]

RECURSIVE BitOr(_, _)
\* Bitwise OR of two naturals (x and y are bound once per step).
BitOr(x, y) ==
    CHOOSE r \in
        {IF a = 0 THEN b
         ELSE IF b = 0 THEN a
         ELSE (IF a % 2 = 1 \/ b % 2 = 1 THEN 1 ELSE 0) + 2 * BitOr(a \div 2, b \div 2) :
            a \in {x}, b \in {y}} : TRUE

\* All byte sequences over S with lengths lo .. hi.
SeqsOf(S, lo, hi) == UNION {[1 .. n -> S] : n \in lo .. hi}

Min(S) == CHOOSE x \in S : \A y \in S : x <= y

\* Vec / slice helpers: v[from ..] with 0-based from.
SliceFrom(v, from) == SubSeq(v, from + 1, Len(v))

\* ---------------------------------------------------------------- Rollsum
\* One turn of the loop of Rollsum::new and batch_roll: s += byte; ss += s.
RollsumStep(acc, byte) ==
    LET s1 == AddU32(acc.s, U32(byte))
    IN  [s |-> s1, ss |-> AddU32(acc.ss, s1)]

RECURSIVE RollsumFold(_, _)
\* The loop of Rollsum::new and batch_roll over the bytes left to right (the
\* running sums and the rest of the buffer are bound once per turn).
RollsumFold(sums, bytes) ==
    CHOOSE r \in
        {IF rest = << >> THEN acc
         ELSE RollsumFold(RollsumStep(acc, Head(rest)), Tail(rest)) :
            acc \in {sums}, rest \in {bytes}} : TRUE

\* Wrapping(0) for s and for ss.
ZeroSums == [s |-> U32(0), ss |-> U32(0)]

\* Rollsum::new(_buf)
RollsumNew(buf) ==
    LET r == RollsumFold(ZeroSums, buf)
    IN  [s |-> r.s, ss |-> r.ss, block_size |-> Len(buf)]

\* Rollsum::digest(): self.ss.0 << 16 | self.s.0, as a u32.
Digest(r) == [hi |-> BitOr(r.ss.lo, r.s.hi), lo |-> r.s.lo]

\* roll_hash as it would be with the leaving byte taken off ss once instead of
\* block_size times.
RollHashSomeNoWidth(r, new_byte, old_byte) ==
    LET s1  == SubU32(r.s, U32(old_byte))
        ss1 == SubU32(r.ss, U32(old_byte))
        s2  == AddU32(s1, U32(new_byte))
    IN  [s |-> s2, ss |-> AddU32(ss1, s2), block_size |-> r.block_size]

\* Rollsum::roll_hash(Some(new_byte), old_byte)
RollHashSome(r, new_byte, old_byte) ==
    LET s1  == SubU32(r.s, U32(old_byte))
        ss1 == SubU32(r.ss, MulU32Byte(U32(r.block_size), old_byte))
        s2  == AddU32(s1, U32(new_byte))
    IN  [s |-> s2, ss |-> AddU32(ss1, s2), block_size |-> r.block_size]

\* roll_hash(None, old_byte) as it would be with the leaving byte taken off ss
\* once instead of block_size times.
RollHashNoneNoWidth(r, old_byte) ==
    [s |-> SubU32(r.s, U32(old_byte)),
     ss |-> SubU32(r.ss, U32(old_byte)),
     block_size |-> r.block_size - 1]

\* Rollsum::roll_hash(None, old_byte), for block_size >= 1
RollHashNone(r, old_byte) ==
    [s |-> SubU32(r.s, U32(old_byte)),
     ss |-> SubU32(r.ss, MulU32Byte(U32(r.block_size), old_byte)),
     block_size |-> r.block_size - 1]

\* batch_roll as it would be without resetting s and ss before the loop.
BatchRollNoReset(r, buffer) ==
    IF Len(buffer) # r.block_size
    THEN [ok |-> FALSE, rs |-> r]
    ELSE LET f == RollsumFold([s |-> r.s, ss |-> r.ss], buffer)
         IN  [ok |-> TRUE, rs |-> [s |-> f.s, ss |-> f.ss, block_size |-> r.block_size]]

\* batch_roll as it would be with s and ss reset before the length test, so
\* that an Err leaves them zeroed.
BatchRollResetFirst(r, buffer) ==
    IF Len(buffer) # r.block_size
    THEN [ok |-> FALSE, rs |-> [s |-> ZeroSums.s, ss |-> ZeroSums.ss,
                                block_size |-> r.block_size]]
    ELSE LET f == RollsumFold(ZeroSums, buffer)
         IN  [ok |-> TRUE, rs |-> [s |-> f.s, ss |-> f.ss, block_size |-> r.block_size]]

\* Rollsum::batch_roll(buffer): Err leaves the state alone, Ok rebuilds s and ss.
BatchRoll(r, buffer) ==
    IF Len(buffer) # r.block_size
    THEN [ok |-> FALSE, rs |-> r]
    ELSE LET f == RollsumFold(ZeroSums, buffer)
         IN  [ok |-> TRUE, rs |-> [s |-> f.s, ss |-> f.ss, block_size |-> r.block_size]]


\* -------------------------------------------------------------- Signature
\* Blake2b over a byte slice, taken as collision-free.
StrongHash(bytes) == <<"blake2b", bytes>>

\* Signature::new(_block_size)
SignatureNew(bs) ==
    [chunk_hashes |-> << >>, block_size |-> bs, blocks |-> 0, file_size |-> 0]

\* Read::read of a Cursor at position pos into buf: the bytes read overwrite the
\* front of buf, the rest of buf keeps what it held.
CursorRead(data, pos, buf) ==
    LET left == IF pos >= Len(data) THEN 0 ELSE Len(data) - pos
        n    == IF Len(buf) < left THEN Len(buf) ELSE left
    IN  [n |-> n,
         buf |-> [i \in 1 .. Len(buf) |-> IF i <= n THEN data[pos + i] ELSE buf[i]]]

\* The bucket update as it would be with the block put at the front of its
\* bucket instead of pushed at the back.
PushBlockFront(chunk_hashes, key, block) ==
    IF key \in DOMAIN chunk_hashes
    THEN [chunk_hashes EXCEPT ![key] = <<block>> \o @]
    ELSE [k \in DOMAIN chunk_hashes \cup {key} |->
            IF k = key THEN <<block>> ELSE chunk_hashes[k]]

\* self.chunk_hashes.entry(key).or_insert(Vec::new()).push(block)
PushBlock(chunk_hashes, key, block) ==
    IF key \in DOMAIN chunk_hashes
    THEN [chunk_hashes EXCEPT ![key] = Append(@, block)]
    ELSE [k \in DOMAIN chunk_hashes \cup {key} |->
            IF k = key THEN <<block>> ELSE chunk_hashes[k]]

\* Signature::get_chunk_map(key) is Some
HasChunk(sg, key) == key \in DOMAIN sg.chunk_hashes

\* Signature::get_blocks()
GetBlocks(sg) == sg.blocks

\* Signature::get_file_size()
GetFileSize(sg) == sg.file_size

\* ------------------------------------------------------------ check_diffs
\* Add::new(byte_index)
AddNew(byte_index) ==
    [kind |-> "Add", byte_index |-> byte_index, bytes |-> 0, content |-> << >>]

\* Delta::Delete(Delete {byte_index, bytes})
DeleteOf(byte_index, bytes) ==
    [kind |-> "Delete", byte_index |-> byte_index, bytes |-> bytes]

NoneIndex == [some |-> FALSE, index |-> 0]

SomeIndex(i) == [some |-> TRUE, index |-> i]

\* check_strong_hash as it would be with >= in place of > on block_index.
CheckStrongHashAtOrAbove(consumed, win, blocks) ==
    LET hash == StrongHash(win)
        hits == {i \in 1 .. Len(blocks) :
                    /\ blocks[i].hash = hash
                    /\ blocks[i].block_index >= consumed}
    IN  IF hits = {} THEN NoneIndex ELSE SomeIndex(blocks[Min(hits)].block_index)

\* check_strong_hash as it would be if it kept scanning the bucket and returned
\* the last qualifying record instead of the first.
CheckStrongHashLast(consumed, win, blocks) ==
    LET hash == StrongHash(win)
        hits == {i \in 1 .. Len(blocks) :
                    /\ blocks[i].hash = hash
                    /\ blocks[i].block_index > consumed}
        last == CHOOSE i \in hits : \A j \in hits : j <= i
    IN  IF hits = {} THEN NoneIndex ELSE SomeIndex(blocks[last].block_index)

\* check_strong_hash: the first record of the bucket, in bucket order, whose hash
\* equals the window's and whose block_index is above consumed_block_index.
CheckStrongHash(consumed, win, blocks) ==
    LET hash == StrongHash(win)
        hits == {i \in 1 .. Len(blocks) :
                    /\ blocks[i].hash = hash
                    /\ blocks[i].block_index > consumed}
    IN  IF hits = {} THEN NoneIndex ELSE SomeIndex(blocks[Min(hits)].block_index)

VARIABLES
    block_size,            \* check_diffs argument
    old_buf,               \* the old sequence (Cursor contents)
    new_buf,               \* the new sequence (Cursor contents)
    old_pos,               \* read position of the old Cursor
    sig,                   \* the Signature
    buf,                   \* generate's chunk buffer
    read_size,             \* generate's read_size
    sig_rs,                \* generate's Rollsum
    window,                \* the sliding window
    start_win,             \* u16
    end_win,               \* u16
    deltas,                \* the returned Vec<Delta>
    new_bytes,             \* the pending Add
    consumed_block_index,  \* i32
    rs,                    \* the scan's Rollsum
    pc,                    \* position in check_diffs
    matched,               \* history: the matches recorded so far, in order
    r_rs,                  \* rollsum harness: the Rollsum under test
    r_window,              \* rollsum harness: the bytes the window holds
    r_rest,                \* rollsum harness: bytes still to slide over
    r_origin,              \* rollsum harness: how r_rs came to describe r_window
    r_last,                \* rollsum harness: the last operation and its result
    r_before,              \* rollsum harness: r_rs before the last operation
    r_buflen               \* rollsum harness: buffer.len() of the last batch_roll

scan_vars == <<block_size, old_buf, new_buf, old_pos, sig, buf, read_size, sig_rs,
               window, start_win, end_win, deltas, new_bytes, consumed_block_index,
               rs, pc, matched>>

roll_vars == <<r_rs, r_window, r_rest, r_origin, r_last, r_before, r_buflen>>

vars == <<scan_vars, roll_vars>>

Zeros(n) == [i \in 1 .. n |-> 0]

\* The rollsum harness at rest (while check_diffs is the program under study).
RollIdle ==
    /\ r_rs = RollsumNew(<< >>)
    /\ r_window = << >>
    /\ r_rest = << >>
    /\ r_origin = "idle"
    /\ r_last = "idle"
    /\ r_before = RollsumNew(<< >>)
    /\ r_buflen = 0

\* check_diffs up to the call of sig.generate (lib.rs 53-64), for a non-empty
\* old sequence and a new sequence of at least one block.
ScanInit ==
    /\ block_size \in 1 .. MaxBlockSize
    /\ old_buf \in SeqsOf(Bytes, 1, MaxOldLen)
    /\ new_buf \in SeqsOf(Bytes, block_size, MaxNewLen)
    /\ old_pos = 0
    /\ sig = SignatureNew(block_size)
    /\ buf = << >>
    /\ read_size = 0
    /\ sig_rs = RollsumNew(<< >>)
    /\ window = Zeros(block_size)
    /\ start_win = 0
    /\ end_win = AsU16(block_size - 1)
    /\ deltas = << >>
    /\ new_bytes = AddNew(0)
    /\ consumed_block_index = -1
    /\ rs = RollsumNew(<< >>)
    /\ pc = "generate"
    /\ matched = << >>

Init == ScanInit /\ RollIdle

\* Signature::generate, up to its loop (signature.rs 37-43).
GenerateStart ==
    /\ pc = "generate"
    /\ LET rd == CursorRead(old_buf, old_pos, Zeros(sig.block_size))
       IN  /\ buf' = rd.buf
           /\ read_size' = rd.n
           /\ old_pos' = old_pos + rd.n
           /\ sig_rs' = RollsumNew(rd.buf)
           /\ sig' = IF rd.n = 0 THEN [sig EXCEPT !.blocks = 0, !.file_size = 0] ELSE sig
    /\ pc' = "generate_loop"
    /\ UNCHANGED <<block_size, old_buf, new_buf, window, start_win, end_win, deltas,
                   new_bytes, consumed_block_index, rs, matched>>
    /\ UNCHANGED roll_vars

\* The chunk recorded as it would be with file_size grown by block_size instead
\* of by the number of bytes read.
RecordChunkFullBlock(sg, key, block, n) ==
    [sg EXCEPT !.chunk_hashes = PushBlock(@, key, block),
               !.blocks = AsU16(@ + 1),
               !.file_size = AsU16(@ + AsU16(sg.block_size))]

\* signature.rs 48-54: the block joins its bucket and the counters grow.
RecordChunk(sg, key, block, n) ==
    [sg EXCEPT !.chunk_hashes = PushBlock(@, key, block),
               !.blocks = AsU16(@ + 1),
               !.file_size = AsU16(@ + AsU16(n))]

\* One iteration of generate's while loop (signature.rs 44-57).
GenerateBlock ==
    /\ pc = "generate_loop"
    /\ read_size > 0
    /\ LET block == [block_index |-> sig.blocks, hash |-> StrongHash(buf)]
           rd    == CursorRead(old_buf, old_pos, buf)
           br    == BatchRoll(sig_rs, rd.buf)
       IN  /\ sig' = RecordChunk(sig, Digest(sig_rs), block, read_size)
           /\ buf' = rd.buf
           /\ read_size' = rd.n
           /\ old_pos' = old_pos + rd.n
           /\ sig_rs' = br.rs
           /\ pc' = IF br.ok THEN "generate_loop" ELSE "panic"
    /\ UNCHANGED <<block_size, old_buf, new_buf, window, start_win, end_win, deltas,
                   new_bytes, consumed_block_index, rs, matched>>
    /\ UNCHANGED roll_vars

\* generate returns; the initial window and its weak hash (lib.rs 68-70).
InitWindow ==
    /\ pc = "generate_loop"
    /\ read_size = 0
    /\ LET rd == CursorRead(new_buf, 0, window)
       IN  /\ window' = rd.buf
           /\ rs' = RollsumNew(rd.buf)
    /\ pc' = "loop"
    /\ UNCHANGED <<block_size, old_buf, new_buf, old_pos, sig, buf, read_size, sig_rs,
                   start_win, end_win, deltas, new_bytes, consumed_block_index,
                   matched>>
    /\ UNCHANGED roll_vars


\* lib.rs 74: the window's weak digest has a bucket in the signature.
LookupHit ==
    /\ pc = "loop"
    /\ HasChunk(sig, Digest(rs))
    /\ pc' = "bucket"
    /\ UNCHANGED <<block_size, old_buf, new_buf, old_pos, sig, buf, read_size, sig_rs,
                   window, start_win, end_win, deltas, new_bytes, consumed_block_index,
                   rs, matched>>
    /\ UNCHANGED roll_vars

\* lib.rs 75-76: the result of check_strong_hash on the bucket found at line 74.
StrongMatch == CheckStrongHash(consumed_block_index, window, sig.chunk_hashes[Digest(rs)])

\* lib.rs 75-76, 108-109: the bucket holds no usable record; the if-let has no
\* else branch, so control returns to the top of the loop with nothing changed.
StrongMiss ==
    /\ pc = "bucket"
    /\ ~StrongMatch.some
    /\ pc' = "loop"
    /\ UNCHANGED <<block_size, old_buf, new_buf, old_pos, sig, buf, read_size, sig_rs,
                   window, start_win, end_win, deltas, new_bytes, consumed_block_index,
                   rs, matched>>
    /\ UNCHANGED roll_vars

\* lib.rs 79-92: the Delete for skipped old blocks and the flush of the pending Add.
MatchDeltas(new_matched_index) ==
    LET advanced_blocks == AsU16(new_matched_index - AsU16(consumed_block_index + 1))
        d1 == IF advanced_blocks > 0
              THEN Append(deltas,
                          DeleteOf(start_win, AsU16(advanced_blocks * AsU16(block_size))))
              ELSE deltas
    IN  IF new_bytes.bytes > 0 THEN Append(d1, new_bytes) ELSE d1

\* lib.rs 96: the test that decides between the end-of-sequence break and the jump.
JumpPastEnd == end_win + block_size > Len(new_buf)

\* lib.rs 97: buf_len as u16 - end_win - 1, before any wrapping.
RemainderRaw == AsU16(Len(new_buf)) - end_win - 1

\* lib.rs 79-93 as done by every match.
MatchCommon ==
    /\ pc = "bucket"
    /\ StrongMatch.some
    /\ deltas' = MatchDeltas(StrongMatch.index)
    /\ consumed_block_index' = StrongMatch.index
    /\ matched' = Append(matched, [block_index |-> StrongMatch.index,
                                   at |-> start_win, window |-> window])
    /\ UNCHANGED <<block_size, old_buf, new_buf, old_pos, sig, buf, read_size, sig_rs>>
    /\ UNCHANGED roll_vars

\* lib.rs 79-100: a match with less than a block left; the remainder is literal.
MatchEnd ==
    /\ MatchCommon
    /\ JumpPastEnd
    /\ ~OverflowsU16(RemainderRaw)
    /\ new_bytes' = [kind |-> "Add", byte_index |-> AsU16(end_win + 1),
                     bytes |-> RemainderRaw, content |-> SliceFrom(new_buf, end_win)]
    /\ pc' = "final"
    /\ UNCHANGED <<window, start_win, end_win, rs>>

\* lib.rs 97 without overflow checks: the u16 subtraction wraps.
MatchEndWrap ==
    /\ MatchCommon
    /\ JumpPastEnd
    /\ OverflowsU16(RemainderRaw)
    /\ new_bytes' = [kind |-> "Add", byte_index |-> AsU16(end_win + 1),
                     bytes |-> AsU16(RemainderRaw),
                     content |-> SliceFrom(new_buf, end_win)]
    /\ pc' = "final"
    /\ UNCHANGED <<window, start_win, end_win, rs>>

\* lib.rs 97 with overflow checks: "attempt to subtract with overflow".
MatchEndPanic ==
    /\ MatchCommon
    /\ JumpPastEnd
    /\ OverflowsU16(RemainderRaw)
    /\ new_bytes' = AddNew(AsU16(end_win + 1))
    /\ pc' = "panic"
    /\ UNCHANGED <<window, start_win, end_win, rs>>

\* lib.rs 79-93, 101-107: a match followed by a jump of one block.
MatchJump ==
    /\ MatchCommon
    /\ ~JumpPastEnd
    /\ new_bytes' = AddNew(AsU16(end_win + 1))
    /\ start_win' = AsU16(start_win + AsU16(block_size))
    /\ end_win' = AsU16(end_win + AsU16(block_size))
    /\ LET rd == CursorRead(new_buf, start_win', window)
           br == BatchRoll(rs, rd.buf)
       IN  /\ window' = rd.buf
           /\ rs' = br.rs
           /\ pc' = IF br.ok THEN "loop" ELSE "panic"

\* lib.rs 113-114: the window's leading byte joins the pending Add.
PushLeading == [new_bytes EXCEPT !.content = Append(@, window[1]),
                                 !.bytes = AsU16(@ + 1)]

\* lib.rs 115: no byte is left to extend the window.
AtEnd == end_win >= Len(new_buf) - 1

\* lib.rs 110-118: no bucket, and the window is the last one.
NoMatchEnd ==
    /\ pc = "loop"
    /\ ~HasChunk(sig, Digest(rs))
    /\ AtEnd
    /\ new_bytes' = [PushLeading EXCEPT
                       !.bytes = AsU16(@ + AsU16(AsU16(Len(new_buf)) - start_win)),
                       !.content = SliceFrom(new_buf, start_win)]
    /\ pc' = "final"
    /\ UNCHANGED <<block_size, old_buf, new_buf, old_pos, sig, buf, read_size, sig_rs,
                   window, start_win, end_win, deltas, consumed_block_index, rs,
                   matched>>
    /\ UNCHANGED roll_vars

\* lib.rs 110-114, 119-128: no bucket; the window slides one byte.
NoMatchSlide ==
    /\ pc = "loop"
    /\ ~HasChunk(sig, Digest(rs))
    /\ ~AtEnd
    /\ new_bytes' = PushLeading
    /\ start_win' = AsU16(start_win + 1)
    /\ end_win' = AsU16(end_win + 1)
    /\ window' = Tail(Append(window, new_buf[end_win' + 1]))
    /\ rs' = RollHashSome(rs, new_buf[end_win' + 1], new_buf[start_win'])
    /\ UNCHANGED <<block_size, old_buf, new_buf, old_pos, sig, buf, read_size, sig_rs,
                   deltas, consumed_block_index, pc, matched>>
    /\ UNCHANGED roll_vars

\* lib.rs 131-134: the final new bytes.
FlushFinal ==
    /\ pc = "final"
    /\ deltas' = IF new_bytes.bytes > 0 THEN Append(deltas, new_bytes) ELSE deltas
    /\ pc' = "tail"
    /\ UNCHANGED <<block_size, old_buf, new_buf, old_pos, sig, buf, read_size, sig_rs,
                   window, start_win, end_win, new_bytes, consumed_block_index, rs,
                   matched>>
    /\ UNCHANGED roll_vars

\* lib.rs 137: sig.get_blocks() - 1 > consumed_block_index as u16
UnmatchedTail(sg, consumed) == AsU16(GetBlocks(sg) - 1) > AsU16(consumed)

\* lib.rs 136-143: the final unmatched bytes, then the list is returned.
TrailingDelete ==
    /\ pc = "tail"
    /\ deltas' =
         IF UnmatchedTail(sig, consumed_block_index)
         THEN Append(deltas,
                DeleteOf(AsU16((consumed_block_index + 1) * block_size - 1),
                         AsU16(GetFileSize(sig)
                               - AsU16(AsU16(consumed_block_index + 1) * AsU16(block_size)))))
         ELSE deltas
    /\ pc' = "done"
    /\ UNCHANGED <<block_size, old_buf, new_buf, old_pos, sig, buf, read_size, sig_rs,
                   window, start_win, end_win, new_bytes, consumed_block_index, rs,
                   matched>>
    /\ UNCHANGED roll_vars

Next ==
    \/ GenerateStart
    \/ GenerateBlock
    \/ InitWindow
    \/ LookupHit
    \/ StrongMiss
    \/ MatchEnd
    \/ MatchEndWrap
    \/ MatchEndPanic
    \/ MatchJump
    \/ NoMatchEnd
    \/ NoMatchSlide
    \/ FlushFinal
    \/ TrailingDelete

Spec == Init /\ [][Next]_vars

\* check_diffs is straight-line, single-threaded code: whenever a step is possible
\* the program takes one.
FairSpec == Spec /\ WF_vars(Next)


\* ------------------------------------------------- Rollsum on its own
\* check_diffs at rest (while a Rollsum alone is the program under study).
ScanIdle ==
    /\ block_size = 1
    /\ old_buf = << >>
    /\ new_buf = << >>
    /\ old_pos = 0
    /\ sig = SignatureNew(1)
    /\ buf = << >>
    /\ read_size = 0
    /\ sig_rs = RollsumNew(<< >>)
    /\ window = << >>
    /\ start_win = 0
    /\ end_win = 0
    /\ deltas = << >>
    /\ new_bytes = AddNew(0)
    /\ consumed_block_index = -1
    /\ rs = RollsumNew(<< >>)
    /\ pc = "idle"
    /\ matched = << >>

\* let mut rs = Rollsum::new(&window), with more bytes of the sequence to come.
RollInit ==
    /\ r_window \in SeqsOf(RollBytes, 1, MaxWindow)
    /\ r_rest \in SeqsOf(RollBytes, 0, MaxRest)
    /\ r_rs = RollsumNew(r_window)
    /\ r_origin = "new"
    /\ r_last = "new"
    /\ r_before = RollsumNew(r_window)
    /\ r_buflen = 0
    /\ ScanIdle

\* rs.roll_hash(Some(entering), leaving): the window slides one byte along the
\* sequence (as lib.rs 120-127 calls it).
RollForward ==
    /\ r_origin # "stray"
    /\ r_rest # << >>
    /\ r_window # << >>
    /\ r_rs' = RollHashSome(r_rs, Head(r_rest), Head(r_window))
    /\ r_window' = Append(Tail(r_window), Head(r_rest))
    /\ r_rest' = Tail(r_rest)
    /\ r_last' = "roll"
    /\ r_before' = r_rs
    /\ r_buflen' = 0
    /\ UNCHANGED r_origin
    /\ UNCHANGED scan_vars

\* rs.roll_hash(Some(new_byte), old_byte) with an old_byte that is not the
\* window's leading byte: the public method accepts it, and s and ss then
\* describe no window.
RollStray ==
    /\ r_origin # "stray"
    /\ \E new_byte \in RollBytes, old_byte \in RollBytes :
          /\ IF r_window = << >> THEN TRUE ELSE old_byte # Head(r_window)
          /\ r_rs' = RollHashSome(r_rs, new_byte, old_byte)
    /\ r_origin' = "stray"
    /\ r_last' = "roll"
    /\ r_before' = r_rs
    /\ r_buflen' = 0
    /\ UNCHANGED <<r_window, r_rest>>
    /\ UNCHANGED scan_vars

\* rs.roll_hash(None, leaving): the window loses its leading byte and takes in
\* none.
RollShrink ==
    /\ r_origin # "stray"
    /\ r_window # << >>
    /\ r_rs.block_size >= 1
    /\ r_rs' = RollHashNone(r_rs, Head(r_window))
    /\ r_window' = Tail(r_window)
    /\ r_last' = "shrink"
    /\ r_before' = r_rs
    /\ r_buflen' = 0
    /\ UNCHANGED <<r_rest, r_origin>>
    /\ UNCHANGED scan_vars

\* rs.batch_roll(&buffer) for a buffer of any length.
BatchRollCall ==
    /\ \E buffer \in SeqsOf(RollBytes, 0, MaxWindow) :
          LET br == BatchRoll(r_rs, buffer)
          IN  /\ r_rs' = br.rs
              /\ r_window' = IF br.ok THEN buffer ELSE r_window
              /\ r_origin' = IF br.ok THEN "batch" ELSE r_origin
              /\ r_last' = IF br.ok THEN "batch_ok" ELSE "batch_err"
              /\ r_buflen' = Len(buffer)
    /\ r_before' = r_rs
    /\ UNCHANGED r_rest
    /\ UNCHANGED scan_vars

RollNext ==
    \/ RollForward
    \/ RollStray
    \/ RollShrink
    \/ BatchRollCall

RollSpec == RollInit /\ [][RollNext]_vars


\* ------------------------------------------------------------------ claims
\* The inputs the claims about check_diffs cover: old and new of at least one block.
AtLeastOneBlock == Len(old_buf) >= block_size /\ Len(new_buf) >= block_size

\* check_diffs has returned its list.
Returned == pc = "done"

\* Signature::generate has returned.
Generated == pc # "generate" /\ (pc = "generate_loop" => read_size = 0)

RECURSIVE SumBytes(_, _)
\* The sum of bytes over the deltas of one kind.
SumBytes(ds, kind) ==
    IF ds = << >> THEN 0
    ELSE (IF Head(ds).kind = kind THEN Head(ds).bytes ELSE 0) + SumBytes(Tail(ds), kind)

\* C1: for old and new of at least one block, check_diffs terminates: the scan
\* loop reaches a break and the delta list is returned.
C1_Terminates == AtLeastOneBlock => <>Returned

\* C2: every Add of the returned list has content.len() == bytes.
C2_AddContentLen ==
    (Returned /\ AtLeastOneBlock) =>
        \A i \in 1 .. Len(deltas) :
            deltas[i].kind = "Add" => Len(deltas[i].content) = deltas[i].bytes

\* C3: from Rollsum::new, after every roll_hash(Some(entering), leaving) along the
\* sequence, s, ss and digest() are those of Rollsum::new on the current window.
C3_RollEqualsFresh ==
    (r_origin = "new" /\ r_last = "roll") =>
        /\ r_rs.s = RollsumNew(r_window).s
        /\ r_rs.ss = RollsumNew(r_window).ss
        /\ Digest(r_rs) = Digest(RollsumNew(r_window))

\* C3 witness: a window of several bytes has been rolled to the end of the
\* sequence, 255 leaving and 1 entering on the last roll.
C3_Witness ==
    /\ r_origin = "new"
    /\ r_last = "roll"
    /\ Len(r_window) >= 2
    /\ r_rest = << >>
    /\ r_before.s.lo = r_rs.s.lo + 254

\* C4: check_diffs(block_size, x, x) returns a list of net effect zero, and the
\* empty list when len(x) is a multiple of block_size.
C4_Identity ==
    (Returned /\ AtLeastOneBlock /\ old_buf = new_buf) =>
        /\ SumBytes(deltas, "Add") = SumBytes(deltas, "Delete")
        /\ (Len(old_buf) % block_size = 0 => deltas = << >>)

\* C5: after the scan, a trailing Delete is appended as the last element exactly
\* when consumed_block_index < block_count - 1, for every final
\* consumed_block_index from -1 upward, and its bytes is
\* total_bytes - (consumed_block_index + 1) * block_size.
C5_TrailingDelete ==
    [][(pc = "tail" /\ AtLeastOneBlock) =>
         IF consumed_block_index < GetBlocks(sig) - 1
         THEN /\ Len(deltas') = Len(deltas) + 1
              /\ SubSeq(deltas', 1, Len(deltas)) = deltas
              /\ deltas'[Len(deltas')].kind = "Delete"
              /\ deltas'[Len(deltas')].bytes =
                   GetFileSize(sig) - (consumed_block_index + 1) * block_size
         ELSE deltas' = deltas]_vars

\* C6: consumed_block_index never decreases, and every match returns a
\* block_index strictly above the value consumed_block_index had before it, so
\* no old block index is matched twice.
C6_ForwardOnly ==
    [][/\ consumed_block_index' >= consumed_block_index
       /\ matched' # matched =>
            /\ matched'[Len(matched')].block_index > consumed_block_index
            /\ consumed_block_index' = matched'[Len(matched')].block_index
            /\ \A i \in 1 .. Len(matched) :
                 matched[i].block_index < matched'[Len(matched')].block_index]_vars

\* C6 witness: the same window content has matched twice, at two block indexes.
C6_Witness ==
    /\ Len(matched) >= 2
    /\ matched[1].window = matched[2].window
    /\ matched[1].block_index < matched[2].block_index

\* The weak digest of the block_size-wide window of the new sequence at offset o.
WindowDigest(o) == Digest(RollsumNew(SubSeq(new_buf, o + 1, o + block_size)))

\* new is old with the n bytes new[p .. p+n) inserted at block boundary p of old,
\* and no window of new starting inside the span has its weak digest in the
\* signature of old.
InsertCase(p, n) ==
    /\ Generated
    /\ Len(old_buf) % block_size = 0
    /\ p % block_size = 0
    /\ p < Len(old_buf)
    /\ n >= 1
    /\ Len(new_buf) = Len(old_buf) + n
    /\ SubSeq(new_buf, 1, p) = SubSeq(old_buf, 1, p)
    /\ SliceFrom(new_buf, p + n) = SliceFrom(old_buf, p)
    /\ \A o \in p .. p + n - 1 : ~HasChunk(sig, WindowDigest(o))

\* The one delta the insert case calls for.
InsertedAdd(p, n) ==
    [kind |-> "Add", byte_index |-> p, bytes |-> n,
     content |-> SubSeq(new_buf, p + 1, p + n)]

\* C7: in the insert case check_diffs returns exactly one delta,
\* Add{byte_index = p, bytes = len(span), content = span}.
C7_InsertedSpan ==
    (\E p \in 0 .. MaxOldLen, n \in 1 .. MaxNewLen : InsertCase(p, n))
        ~> (/\ Returned
            /\ \A p \in 0 .. MaxOldLen, n \in 1 .. MaxNewLen :
                 InsertCase(p, n) => deltas = <<InsertedAdd(p, n)>>)

\* Old block i (0-based), for an old sequence that is a whole number of blocks.
OldBlock(i) == SubSeq(old_buf, i * block_size + 1, (i + 1) * block_size)

\* new is old without its first k blocks, and old block k differs from each of
\* the old blocks 0 .. k-1.
RemoveCase(k) ==
    /\ Generated
    /\ Len(old_buf) % block_size = 0
    /\ k >= 1
    /\ k < Len(old_buf) \div block_size
    /\ new_buf = SliceFrom(old_buf, k * block_size)
    /\ \A i \in 0 .. k - 1 : OldBlock(i) # OldBlock(k)

\* C8: in the remove case check_diffs returns exactly one delta,
\* Delete{byte_index = 0, bytes = k * block_size}.
C8_RemovedPrefix ==
    (\E k \in 1 .. MaxOldLen : RemoveCase(k))
        ~> (/\ Returned
            /\ \A k \in 1 .. MaxOldLen :
                 RemoveCase(k) => deltas = <<DeleteOf(0, k * block_size)>>)

\* C9: after generate on n bytes, get_blocks() is ceil(n / block_size) and
\* get_file_size() is n.
C9_SignatureSizes ==
    Generated =>
        /\ GetBlocks(sig) = (Len(old_buf) + sig.block_size - 1) \div sig.block_size
        /\ GetFileSize(sig) = Len(old_buf)

\* C9 witness: generate has returned on a source of more than one block whose
\* length is not a multiple of block_size.
C9_Witness ==
    /\ pc = "generate_loop"
    /\ read_size = 0
    /\ Len(old_buf) > block_size
    /\ Len(old_buf) % block_size # 0

\* Bit i of a natural.
Bit(n, i) == (n \div (2 ^ i)) % 2

\* Bit i (0 .. 31) of a u32.
BitU32(x, i) == IF i < 16 THEN Bit(x.lo, i) ELSE Bit(x.hi, i - 16)

\* digest() of r is ss << 16 | s on 32 bits, bit by bit, nothing masked.
UnmaskedOr(r) ==
    \A i \in 0 .. 31 :
        BitU32(Digest(r), i) = 1 <=>
            \/ BitU32(r.s, i) = 1
            \/ i >= 16 /\ BitU32(r.ss, i - 16) = 1

\* C10: after batch_roll(w) succeeds, whatever s and ss were before, digest() is
\* that of Rollsum::new(w); and digest() is (ss << 16 | s) mod 2^32, unmasked.
C10_BatchEqualsNew ==
    /\ r_last = "batch_ok" => Digest(r_rs) = Digest(RollsumNew(r_window))
    /\ UnmaskedOr(r_rs)
    /\ UnmaskedOr(r_before)

\* C10 witness: batch_roll succeeded on a Rollsum whose s had wrapped into its
\* high half, where it overlapped ss << 16.
C10_Witness ==
    /\ r_last = "batch_ok"
    /\ r_before.s.hi > 0
    /\ r_before.ss.lo > 0
    /\ Len(r_window) >= 2
    /\ r_before # r_rs


\* C11: every Add of the returned list has content equal to the bytes of the new
\* sequence at offsets byte_index .. byte_index + bytes - 1.
C11_AddContentAtAnchor ==
    (Returned /\ AtLeastOneBlock) =>
        \A i \in 1 .. Len(deltas) :
            deltas[i].kind = "Add" =>
                /\ deltas[i].byte_index + deltas[i].bytes <= Len(new_buf)
                /\ deltas[i].content =
                     SubSeq(new_buf, deltas[i].byte_index + 1,
                            deltas[i].byte_index + deltas[i].bytes)


\* C12: batch_roll returns Err exactly when buffer.len() differs from
\* block_size, an Err leaves s, ss and block_size as they were, and an Ok
\* leaves block_size as it was.
C12_BatchRollLength ==
    r_last \in {"batch_ok", "batch_err"} =>
        /\ (r_last = "batch_err") <=> (r_buflen # r_before.block_size)
        /\ r_last = "batch_err" => r_rs = r_before
        /\ r_last = "batch_ok" => r_rs.block_size = r_before.block_size

\* A refused batch_roll on a Rollsum whose sums are not zero.
C12_Witness ==
    /\ r_last = "batch_err"
    /\ r_buflen # r_before.block_size
    /\ r_before.s # ZeroSums.s
    /\ r_before.ss # ZeroSums.ss


\* C18: roll_hash(None, old_byte) on the state of a window led by old_byte
\* lowers block_size by one and leaves s and ss equal to those of Rollsum::new
\* on the window without its leading byte; roll_hash(Some(_), _) keeps
\* block_size.
C18_ShrinkEqualsFresh ==
    /\ r_last = "shrink" =>
          /\ r_rs.block_size = r_before.block_size - 1
          /\ r_rs.s = RollsumNew(r_window).s
          /\ r_rs.ss = RollsumNew(r_window).ss
    /\ r_last = "roll" => r_rs.block_size = r_before.block_size

\* A window of at least two bytes has lost its leading byte.
C18_Witness ==
    /\ r_last = "shrink"
    /\ r_window # << >>
    /\ r_before.block_size = Len(r_window) + 1
    /\ r_before.s # r_rs.s


\* C13: when the window's weak digest has a bucket but no record of it has both
\* the window's strong hash and a block_index above consumed_block_index, the
\* iteration appends the window's leading byte to the pending Add and either
\* slides the window one byte forward or finalizes the scan.
C13_StrongMissIsNoMatch ==
    [][(pc = "bucket" /\ ~StrongMatch.some /\ AtLeastOneBlock) =>
         /\ new_bytes'.content = Append(new_bytes.content, window[1])
         /\ \/ pc' = "final"
            \/ start_win' = start_win + 1 /\ end_win' = end_win + 1]_vars


\* The bytes returned by the read of chunk i (0-based) of the old sequence.
OldChunk(i) ==
    SubSeq(old_buf, i * block_size + 1, Min({(i + 1) * block_size, Len(old_buf)}))

\* C14: for each chunk that Signature::generate reads, the record it stores
\* carries the strong hash of exactly the bytes of that read and sits under the
\* weak digest of exactly those bytes, also for a final chunk shorter than
\* block_size.
C14_ChunkHashesOverRead ==
    Generated =>
        \A i \in 0 .. GetBlocks(sig) - 1 :
            LET key == Digest(RollsumNew(OldChunk(i)))
            IN  /\ HasChunk(sig, key)
                /\ \E j \in 1 .. Len(sig.chunk_hashes[key]) :
                      sig.chunk_hashes[key][j] =
                          [block_index |-> i, hash |-> StrongHash(OldChunk(i))]


\* C15: at the start of every scan-loop iteration, end_win - start_win is
\* block_size - 1, end_win is at most len(new) - 1, and window holds
\* new[start_win ..= end_win].
C15_WindowInvariant ==
    (pc = "loop" /\ AtLeastOneBlock) =>
        /\ end_win - start_win = block_size - 1
        /\ end_win <= Len(new_buf) - 1
        /\ window = SubSeq(new_buf, start_win + 1, end_win + 1)


\* The block indexes of the records of the bucket under the window's weak
\* digest that carry the window's strong hash and lie above consumed_block_index.
Qualifying ==
    LET bucket == sig.chunk_hashes[Digest(rs)]
    IN  {bucket[j].block_index : j \in {k \in 1 .. Len(bucket) :
                                           /\ bucket[k].hash = StrongHash(window)
                                           /\ bucket[k].block_index > consumed_block_index}}

\* C16: check_strong_hash returns the smallest block_index among the bucket's
\* records with the window's strong hash and a block_index above
\* consumed_block_index, and None exactly when there is no such record.
C16_SmallestQualifying ==
    pc = "bucket" =>
        /\ StrongMatch.some <=> Qualifying # {}
        /\ StrongMatch.some => StrongMatch.index = Min(Qualifying)

\* check_strong_hash is called on a bucket with two qualifying records.
C16_Witness ==
    /\ pc = "bucket"
    /\ Cardinality(Qualifying) >= 2
    /\ StrongMatch.some


\* The places (bucket key, position in the bucket) of the signature's records.
RecordPlaces ==
    {p \in (DOMAIN sig.chunk_hashes) \X (1 .. GetBlocks(sig)) :
        p[2] <= Len(sig.chunk_hashes[p[1]])}

\* C17: after Signature::generate, the block_index values over all buckets are
\* exactly 0 .. block_count - 1, each occurring once, and every bucket is in
\* strictly ascending block_index order.
C17_BucketsAscending ==
    Generated =>
        /\ \A key \in DOMAIN sig.chunk_hashes :
              Len(sig.chunk_hashes[key]) <= GetBlocks(sig)
        /\ \A p \in RecordPlaces :
              sig.chunk_hashes[p[1]][p[2]].block_index \in 0 .. GetBlocks(sig) - 1
        /\ \A i \in 0 .. GetBlocks(sig) - 1 :
              Cardinality({p \in RecordPlaces :
                             sig.chunk_hashes[p[1]][p[2]].block_index = i}) = 1
        /\ \A key \in DOMAIN sig.chunk_hashes :
              \A j \in 1 .. Len(sig.chunk_hashes[key]) - 1 :
                  sig.chunk_hashes[key][j].block_index
                      < sig.chunk_hashes[key][j + 1].block_index

\* A generated signature in which several blocks share a bucket, next to a
\* bucket of its own for another block.
C17_Witness ==
    /\ Generated
    /\ \E key \in DOMAIN sig.chunk_hashes : Len(sig.chunk_hashes[key]) >= 2
    /\ Cardinality(DOMAIN sig.chunk_hashes) >= 2


\* C19: whenever a match with block index m is recorded, the bytes of the new
\* sequence covered by the window equal the literal bytes of old block m,
\* old[m * block_size .. min((m + 1) * block_size, len(old))).
C19_MatchIsOldBlock ==
    AtLeastOneBlock =>
        \A i \in 1 .. Len(matched) :
            /\ matched[i].at + block_size <= Len(new_buf)
            /\ SubSeq(new_buf, matched[i].at + 1, matched[i].at + block_size)
                 = OldChunk(matched[i].block_index)


\* Every u16 addition, subtraction and multiplication that the step about to be
\* taken performs has its exact result in 0 .. 2^16 - 1 (signature.rs 53-54,
\* lib.rs 79, 83, 93, 97, 102-103, 114, 116, 120-121, 137, 140).
U16OpsInRange ==
    /\ (pc = "generate_loop" /\ read_size > 0) =>
          /\ ~OverflowsU16(sig.blocks + 1)
          /\ ~OverflowsU16(sig.file_size + read_size)
    /\ (pc = "bucket" /\ StrongMatch.some) =>
          /\ ~OverflowsU16(StrongMatch.index - (consumed_block_index + 1))
          /\ ~OverflowsU16((StrongMatch.index - (consumed_block_index + 1)) * block_size)
          /\ ~OverflowsU16(end_win + 1)
          /\ IF JumpPastEnd
             THEN ~OverflowsU16(RemainderRaw)
             ELSE /\ ~OverflowsU16(start_win + block_size)
                  /\ ~OverflowsU16(end_win + block_size)
    /\ (pc = "loop" /\ ~HasChunk(sig, Digest(rs))) =>
          /\ ~OverflowsU16(new_bytes.bytes + 1)
          /\ IF AtEnd
             THEN /\ ~OverflowsU16(Len(new_buf) - start_win)
                  /\ ~OverflowsU16(new_bytes.bytes + 1 + Len(new_buf) - start_win)
             ELSE /\ ~OverflowsU16(start_win + 1)
                  /\ ~OverflowsU16(end_win + 1)
    /\ pc = "tail" =>
          /\ ~OverflowsU16(GetBlocks(sig) - 1)
          /\ UnmatchedTail(sig, consumed_block_index) =>
                /\ ~OverflowsU16((consumed_block_index + 1) * block_size)
                /\ ~OverflowsU16(GetFileSize(sig)
                                 - (consumed_block_index + 1) * block_size)

\* C20: for old and new sequences of at least block_size bytes, no 16-bit
\* unsigned subtraction, addition or multiplication of check_diffs or
\* Signature::generate underflows or wraps, and no overflow panic occurs.
C20_NoU16Overflow ==
    AtLeastOneBlock => (U16OpsInRange /\ pc # "panic")

=============================================================================
